---- MODULE Spec2Model ----
(***************************************************************************)
(* Model of the path-routed reverse proxy of                               *)
(* backend/app/services/proxy_engine.py (class ProxyEngine) together with  *)
(* the management routes of backend/app/api/routes/bitm.py that drive it.  *)
(*                                                                         *)
(* Strings on which the code does substring or case work are sequences of  *)
(* one-character strings; names that are only compared for equality are    *)
(* plain strings.  Every "await" of the code that can suspend the          *)
(* coroutine is a boundary between two actions.                            *)
(***************************************************************************)
EXTENDS Integers, Sequences, FiniteSets, TLC

(* ----------------------------- bounds ---------------------------------- *)
\* relay runs: add_phishlet calls, requests forwarded, clock advances
RelayRegs == 2
RelayReqs == 2
RelayTicks == 1
\* control runs: add_phishlet calls, start calls, requests forwarded, clock
\* advances
ControlRegs == 2
ControlStarts == 1
ControlReqs == 1
ControlTicks == 1

\* bound of the rewriter specification: pieces a text is made of
RewritePieces == 3

\* bounds of the export specification
ExportRegs == 1
ExportReqs == 2

\* bounds of the cache specification
CacheRegs == 2
CacheStarts == 2
CacheReqs == 1
CacheTicks == 1

\* bounds of the shared-client specification
JarRegs == 1
JarReqs == 3

\* bounds of the start specification
StartRegs == 2
StartStarts == 2

(* ------------------------- program constants --------------------------- *)
PROXY_PORT == 8020
_cache_ttl == 300
\* request.cookies.get('_proxy_session') when the cookie is absent
NoCookie == 0
\* Optional fields (listen_port, authenticated_at, _server_runner) when None
None == 0

(* ------------------------------ strings -------------------------------- *)
UpperCase == <<"A","B","C","D","E","F","G","H","I","J","K","L","M",
               "N","O","P","Q","R","S","T","U","V","W","X","Y","Z">>
LowerCase == <<"a","b","c","d","e","f","g","h","i","j","k","l","m",
               "n","o","p","q","r","s","t","u","v","w","x","y","z">>

\* one character of str.lower()
LowerChar(c) ==
    IF \E i \in 1..Len(UpperCase) : UpperCase[i] = c
    THEN LowerCase[CHOOSE i \in 1..Len(UpperCase) : UpperCase[i] = c]
    ELSE c

\* str.lower()
lower(s) == [i \in 1..Len(s) |-> LowerChar(s[i])]

\* Python's "sub in s" on strings
Contains(sub, s) ==
    \E i \in 0..(Len(s) - Len(sub)) : SubSeq(s, i + 1, i + Len(sub)) = sub

(* ------------------------------ dicts ---------------------------------- *)
EmptyDict == [k \in {} |-> ""]

\* dict.update(m): the keys of m are written, the others kept
DictUpdate(d, m) ==
    [k \in (DOMAIN d) \cup (DOMAIN m) |-> IF k \in DOMAIN m THEN m[k] ELSE d[k]]

\* d[key] = value
DictSet(d, key, value) ==
    [k \in (DOMAIN d) \cup {key} |-> IF k = key THEN value ELSE d[k]]

\* del d[key], for every key of ks that is present
DictDel(d, ks) == [k \in (DOMAIN d) \ ks |-> d[k]]

(* --------------------------- configuration ----------------------------- *)
\* ids under which a phishlet can be registered (add_phishlet takes any id)
PhishletIds == {"p1", "p2"}

\* upstream addresses: target_scheme and target_host
SchemeHttps == <<"h","t","t","p","s">>
SchemeHttp == <<"h","t","t","p">>
HostA == <<"a",".","e","x">>
HostB == <<"b",".","e","x">>
Upstreams == { [target_scheme |-> SchemeHttps, target_host |-> HostA],
               [target_scheme |-> SchemeHttp, target_host |-> HostB] }

\* form and JSON field names
fUsername == <<"u","s","e","r","n","a","m","e">>
fPassword == <<"p","a","s","s","w","o","r","d">>
fPASS == <<"P","A","S","S">>
fCsrf == <<"c","s","r","f">>

\* request paths (the part after /{phishlet_id}/)
PathRoot == << >>
PathDash == <<"d","a","s","h">>
Paths == {PathRoot, PathDash}

\* capture and detection policies a phishlet can be created with
PolicyFull ==
    [ capture_cookies |-> {"sid"},
      capture_fields  |-> << <<"u","s","e","r","n","a","m","e">>,
                             <<"p","a","s","s","w","o","r","d">> >>,
      auth_tokens     |-> <<"tok">>,
      auth_urls       |-> { <<"/","d","a","s","h">> } ]
PolicyHeuristic ==
    [ capture_cookies |-> {},
      capture_fields  |-> << <<"P","a","s","s">> >>,
      auth_tokens     |-> << >>,
      auth_urls       |-> {} ]
Policies == {PolicyFull, PolicyHeuristic}

\* PhishletConfig(...) as the routes construct it: inactive, no listen port.
\* oid is the identity of the Python object (two configs with equal fields
\* are still two objects).
PhishletConfig(id, up, pol, oid) ==
    [ id |-> id, oid |-> oid,
      target_scheme |-> up.target_scheme, target_host |-> up.target_host,
      capture_cookies |-> pol.capture_cookies,
      capture_fields |-> pol.capture_fields,
      auth_tokens |-> pol.auth_tokens, auth_urls |-> pol.auth_urls,
      is_active |-> FALSE, listen_port |-> None ]

(* ----------------------------- requests -------------------------------- *)
StrVal(s) == [t |-> "str", v |-> <<s>>]
ListVal(l) == [t |-> "list", v |-> l]

\* bodies of POST requests: content type and parsed fields
BodyNone == [ctype |-> "none", data |-> EmptyDict]
BodyLogin ==
    [ ctype |-> "form",
      data |-> (fUsername :> StrVal("alice")) @@ (fPassword :> StrVal("secret")) ]
BodyUpper ==
    [ ctype |-> "form",
      data |-> (fPASS :> StrVal("hunter")) @@ (fCsrf :> StrVal("x9")) ]
BodyJson ==
    [ ctype |-> "json",
      data |-> (fPassword :> ListVal(<<"first", "second">>))
               @@ (fUsername :> ListVal(<< >>)) @@ (fCsrf :> StrVal("x9")) ]
BodyJsonArray == [ctype |-> "json_array", data |-> EmptyDict]
BodyRaw == [ctype |-> "raw", data |-> EmptyDict]
PostBodies == {BodyLogin, BodyUpper, BodyJson, BodyJsonArray}

\* what the upstream can answer: status, Set-Cookie values and body
UpstreamResponses ==
    { [status |-> 200, cookies |-> EmptyDict, body |-> "page1"],
      [status |-> 200, cookies |-> ("sid" :> "s1") @@ ("tok" :> "t1"),
       body |-> "page2"],
      [status |-> 302,
       cookies |-> ("sid" :> "s2") @@ ("lang" :> "en") @@ ("theme" :> "d"),
       body |-> ""] }

(* ------------------------ capture and detection ------------------------ *)
\* the value stored for a matched field: the first element of a list value
\* ('' for an empty list), then str()
FieldValue(value) ==
    IF value.t = "list"
    THEN (IF Len(value.v) > 0 THEN value.v[1] ELSE "")
    ELSE value.v[1]

\* whether some capture_fields pattern, lower-cased, occurs in key.lower()
FieldMatches(key, phishlet) ==
    \E i \in 1..Len(phishlet.capture_fields) :
        Contains(lower(phishlet.capture_fields[i]), lower(key))

\* mutant: the credential is stored under the lower-cased field name
ExtractLowerKeys(data, phishlet) ==
    [ key \in {lower(k) : k \in {f \in DOMAIN data : FieldMatches(f, phishlet)}} |->
        FieldValue(data[CHOOSE k \in DOMAIN data :
                            FieldMatches(k, phishlet) /\ lower(k) = key]) ]

_extract_credentials(data, phishlet) ==
    [ key \in {k \in DOMAIN data : FieldMatches(k, phishlet)} |->
        FieldValue(data[key]) ]

\* mutant: credentials are merged only into a session of the same target
MergeOwnTargetOnly(session, body, phishlet) ==
    IF body.ctype \in {"form", "json"} /\ session.phishlet_id = phishlet.id
    THEN [session EXCEPT
            !.credentials = DictUpdate(@, _extract_credentials(body.data, phishlet))]
    ELSE session

\* the body branch of the handler: form and JSON-object bodies go through
\* _extract_credentials and a non-empty result is merged into the session
MergeCredentials(session, body, phishlet) ==
    IF body.ctype \in {"form", "json"}
    THEN LET creds == _extract_credentials(body.data, phishlet)
         IN  IF creds # EmptyDict
             THEN [session EXCEPT !.credentials = DictUpdate(@, creds)]
             ELSE session
    ELSE session

\* mutant: only capture_cookies is consulted, auth_tokens is forgotten
CaptureOnlyCaptureCookies(session, phishlet, resp_cookies) ==
    LET captured == {k \in DOMAIN resp_cookies : k \in phishlet.capture_cookies}
    IN  [session EXCEPT
            !.cookies = DictUpdate(@, resp_cookies),
            !.tokens = DictUpdate(@, [k \in captured |-> resp_cookies[k]])]

\* mutant: session.cookies is assigned the response's cookies, not merged
CaptureReplacingCookies(session, phishlet, resp_cookies) ==
    LET captured == {k \in DOMAIN resp_cookies :
                        \/ k \in phishlet.capture_cookies
                        \/ \E i \in 1..Len(phishlet.auth_tokens) :
                              phishlet.auth_tokens[i] = k}
    IN  [session EXCEPT
            !.cookies = resp_cookies,
            !.tokens = DictUpdate(@, [k \in captured |-> resp_cookies[k]])]

\* "for cookie in resp.cookies.values()": every cookie goes to
\* session.cookies, the configured ones also to session.tokens
CaptureCookies(session, phishlet, resp_cookies) ==
    LET captured == {k \in DOMAIN resp_cookies :
                        \/ k \in phishlet.capture_cookies
                        \/ \E i \in 1..Len(phishlet.auth_tokens) :
                              phishlet.auth_tokens[i] = k}
    IN  [session EXCEPT
            !.cookies = DictUpdate(@, resp_cookies),
            !.tokens = DictUpdate(@, [k \in captured |-> resp_cookies[k]])]

PasswordNames == { <<"p","a","s","s","w","o","r","d">>,
                   <<"p","a","s","s","w","d">>,
                   <<"p","a","s","s">> }

\* mutant: the token rule is tried before the URL rule
CheckAuthSuccessTokensFirst(session, phishlet, response_url, cookies) ==
    LET toks == phishlet.auth_tokens
        hits == {i \in 1..Len(toks) : toks[i] \in DOMAIN cookies}
    IN  IF hits # {}
        THEN LET i == CHOOSE j \in hits : \A h \in hits : j <= h
             IN  [ok |-> TRUE,
                  session |-> [session EXCEPT
                      !.tokens = DictSet(@, toks[i], cookies[toks[i]])]]
        ELSE IF \E u \in phishlet.auth_urls : Contains(u, response_url)
        THEN [ok |-> TRUE, session |-> session]
        ELSE [ok |-> (\E k \in DOMAIN session.credentials :
                          lower(k) \in PasswordNames)
                     /\ Cardinality(DOMAIN session.cookies) > 2,
              session |-> session]

\* the session as _check_auth_success leaves it, and what it returns
_check_auth_success(session, phishlet, response_url, cookies) ==
    LET toks == phishlet.auth_tokens
        hits == {i \in 1..Len(toks) : toks[i] \in DOMAIN cookies}
    IN  IF \E u \in phishlet.auth_urls : Contains(u, response_url)
        THEN [ok |-> TRUE, session |-> session]
        ELSE IF hits # {}
        THEN LET i == CHOOSE j \in hits : \A h \in hits : j <= h
             IN  [ok |-> TRUE,
                  session |-> [session EXCEPT
                      !.tokens = DictSet(@, toks[i], cookies[toks[i]])]]
        ELSE [ok |-> (\E k \in DOMAIN session.credentials :
                          lower(k) \in PasswordNames)
                     /\ Cardinality(DOMAIN session.cookies) > 2,
              session |-> session]

\* mutant: the detector's verdict is assigned on every response, without
\* looking at the flag first
CheckAuthUnguarded(session, phishlet, response_url, clock) ==
    LET r == _check_auth_success(session, phishlet, response_url,
                                 session.cookies)
    IN  [r.session EXCEPT
            !.authenticated = r.ok,
            !.authenticated_at = IF r.ok THEN clock ELSE @]

\* "if not session.authenticated: if self._check_auth_success(...)"
CheckAuth(session, phishlet, response_url, clock) ==
    IF ~session.authenticated
    THEN LET r == _check_auth_success(session, phishlet, response_url,
                                      session.cookies)
         IN  IF r.ok
             THEN [r.session EXCEPT !.authenticated = TRUE,
                                    !.authenticated_at = clock]
             ELSE r.session
    ELSE session

\* f"{phishlet.target_scheme}://{phishlet.target_host}/{path}"
TargetUrl(phishlet, path) ==
    phishlet.target_scheme \o <<":","/","/">> \o phishlet.target_host
        \o <<"/">> \o path

(* --------------------------- content rewriter -------------------------- *)
\* str.replace(old, new): occurrences of old are found from the left,
\* without overlap, in one pass over the original text
RECURSIVE Replace(_, _, _)
Replace(s, old, new) ==
    IF Len(s) < Len(old) \/ old = << >>
    THEN s
    ELSE IF SubSeq(s, 1, Len(old)) = old
    THEN new \o Replace(SubSeq(s, Len(old) + 1, Len(s)), old, new)
    ELSE <<s[1]>> \o Replace(Tail(s), old, new)

\* str(int) of the f-strings
RECURSIVE IntStr(_)
IntStr(n) ==
    LET digit(d) == <<"0","1","2","3","4","5","6","7","8","9">>[d + 1]
    IN  IF n < 10
        THEN <<digit(n)>>
        ELSE IntStr(n \div 10) \o <<digit(n % 10)>>

\* the characters of a target id
IdChars(id) ==
    CASE id = "p1" -> <<"p","1">>
      [] id = "p2" -> <<"p","2">>

\* the fields of a PhishletConfig the rewriter reads; sub_filters is the
\* dict as the sequence of its items, js_inject is empty for None and ''
RewriteConfig(id, target_host, proxy_domains, sub_filters, js_inject) ==
    [ id |-> id, target_host |-> target_host, proxy_domains |-> proxy_domains,
      sub_filters |-> sub_filters, js_inject |-> js_inject ]

\* proxy_base = f"http://localhost:{self._port}"
proxy_base(port) == <<"h","t","t","p",":","/","/","l","o","c","a","l","h","o","s","t",":">> \o IntStr(port)

\* f"//localhost:{self._port}"
ProxyAuthority(port) == <<"/","/","l","o","c","a","l","h","o","s","t",":">> \o IntStr(port)

\* "for domain in phishlet.proxy_domains": the three replacements of each
RECURSIVE RewriteDomains(_, _, _)
RewriteDomains(content, domains, port) ==
    IF domains = << >>
    THEN content
    ELSE LET domain == Head(domains)
             ext == <<"/","_","e","x","t","/">> \o domain
             c1 == Replace(content, <<"h","t","t","p","s",":","/","/">> \o domain, proxy_base(port) \o ext)
             c2 == Replace(c1, <<"h","t","t","p",":","/","/">> \o domain, proxy_base(port) \o ext)
             c3 == Replace(c2, <<"/","/">> \o domain, ProxyAuthority(port) \o ext)
         IN  RewriteDomains(c3, Tail(domains), port)

\* "for target_domain, replacement in phishlet.sub_filters.items()"
RECURSIVE RewriteSubFilters(_, _)
RewriteSubFilters(content, filters) ==
    IF filters = << >>
    THEN content
    ELSE RewriteSubFilters(Replace(content, Head(filters)[1], Head(filters)[2]),
                           Tail(filters))

HeadClose == <<"<","/","h","e","a","d",">">>

\* the script is injected before every </head> when js_inject is set
InjectJs(content, js_inject) ==
    IF js_inject # << >> /\ Contains(HeadClose, content)
    THEN Replace(content, HeadClose,
                 <<"<","s","c","r","i","p","t",">">> \o js_inject \o <<"<","/","s","c","r","i","p","t",">">> \o HeadClose)
    ELSE content

_rewrite_content(content, phishlet, port) ==
    LET base == proxy_base(port) \o <<"/">> \o IdChars(phishlet.id)
        c1 == Replace(content, <<"h","t","t","p","s",":","/","/">> \o phishlet.target_host, base)
        c2 == Replace(c1, <<"h","t","t","p",":","/","/">> \o phishlet.target_host, base)
        c3 == Replace(c2, <<"/","/">> \o phishlet.target_host,
                      ProxyAuthority(port) \o <<"/">> \o IdChars(phishlet.id))
        c4 == RewriteDomains(c3, phishlet.proxy_domains, port)
        c5 == RewriteSubFilters(c4, phishlet.sub_filters)
    IN  InjectJs(c5, phishlet.js_inject)

(* ------------------------------ cookie export -------------------------- *)
\* the characters of a cookie name or value
StrChars(s) ==
    CASE s = "sid" -> <<"s","i","d">>
      [] s = "tok" -> <<"t","o","k">>
      [] s = "lang" -> <<"l","a","n","g">>
      [] s = "theme" -> <<"t","h","e","m","e">>
      [] s = "s1" -> <<"s","1">>
      [] s = "t1" -> <<"t","1">>
      [] s = "s2" -> <<"s","2">>
      [] s = "en" -> <<"e","n">>
      [] s = "d" -> <<"d">>
      [] s = "a; tok=b" -> <<"a",";"," ","t","o","k","=","b">>

\* sep.join(parts)
RECURSIVE Join(_, _)
Join(parts, sep) ==
    IF parts = << >>
    THEN << >>
    ELSE IF Len(parts) = 1
    THEN parts[1]
    ELSE parts[1] \o sep \o Join(Tail(parts), sep)

\* the orders in which items() can yield the keys of a dict: the dicts of
\* the model keep no insertion order, so every order of the keys is one
ItemOrders(d) ==
    {order \in [1..Cardinality(DOMAIN d) -> DOMAIN d] :
        \A k \in DOMAIN d : \E i \in DOMAIN order : order[i] = k}

\* '; '.join(f'{k}={v}' for k, v in session.cookies.items())
ExportHeader(cookies, order) ==
    Join([i \in DOMAIN order |->
              StrChars(order[i]) \o <<"=">> \o StrChars(cookies[order[i]])],
         <<";", " ">>)

\* the Netscape cookie file: a heading line and one line for each cookie
ExportNetscape(cookies, order, domain) ==
    Join(<<<<"#"," ","N","e","t","s","c","a","p","e"," ","H","T","T","P"," ","C","o","o","k","i","e"," ","F","i","l","e">>>> \o
         [i \in DOMAIN order |->
              domain \o <<"\t">> \o <<"T","R","U","E">> \o <<"\t", "/", "\t">> \o <<"F","A","L","S","E">>
                  \o <<"\t", "0", "\t">> \o StrChars(order[i]) \o <<"\t">>
                  \o StrChars(cookies[order[i]])],
         <<"\n">>)

\* format is one of header, json and netscape; anything else gives ""
export_session_cookies(cookies, format, order, domain) ==
    CASE format = "header" -> ExportHeader(cookies, order)
      [] format = "netscape" -> ExportNetscape(cookies, order, domain)
      [] OTHER -> << >>

\* the position of the first occurrence of sep in s, 0 when there is none
IndexOf(s, sep) ==
    LET at == {i \in 1..(Len(s) - Len(sep) + 1) :
                  SubSeq(s, i, i + Len(sep) - 1) = sep}
    IN  IF at = {} THEN 0 ELSE CHOOSE i \in at : \A j \in at : i <= j

\* how a Cookie header is read: cookie-pairs separated by "; ", each a
\* name and a value separated by the first "="
RECURSIVE SplitOn(_, _)
SplitOn(s, sep) ==
    LET i == IndexOf(s, sep)
    IN  IF i = 0
        THEN <<s>>
        ELSE <<SubSeq(s, 1, i - 1)>> \o SplitOn(SubSeq(s, i + Len(sep), Len(s)), sep)

CookiePair(part) ==
    LET i == IndexOf(part, <<"=">>)
    IN  IF i = 0
        THEN <<part, << >> >>
        ELSE <<SubSeq(part, 1, i - 1), SubSeq(part, i + 1, Len(part))>>

ParseCookieHeader(header) ==
    IF header = << >>
    THEN << >>
    ELSE LET parts == SplitOn(header, <<";", " ">>)
         IN  [i \in DOMAIN parts |-> CookiePair(parts[i])]

(* ------------------------------ sessions ------------------------------- *)
\* CapturedSession(...) with its defaults; landing_url is request.path_qs,
\* the path as received: /{phishlet_id}/{path}
CapturedSession(id, phishlet_id, request, clock) ==
    [ id |-> id, phishlet_id |-> phishlet_id,
      victim_ip |-> request.remote, user_agent |-> request.user_agent,
      created_at |-> clock,
      landing_url |-> <<"/", request.phishlet_id, "/">> \o request.path,
      cookies |-> EmptyDict, credentials |-> EmptyDict, tokens |-> EmptyDict,
      requests |-> << >>,
      authenticated |-> FALSE, authenticated_at |-> None ]

\* mutant: the tracking cookie is ignored and every request gets a new id
GetOrCreateAlwaysNew(store, request, fresh) == fresh

\* the id of the session the request resolves to: the cookie's when it names
\* a stored session, otherwise the fresh uuid
_get_or_create_session(store, request, fresh) ==
    IF request.cookie # NoCookie /\ request.cookie \in store
    THEN request.cookie
    ELSE fresh

(* ------------------------------ page cache ----------------------------- *)
\* cache_key = f"{phishlet_id}:{path}"; ids come from uuid4 hex digits and
\* hold no ':', so a key is the pair
CacheKey(phishlet_id, path) == <<phishlet_id, path>>

\* mutant: an entry is still served at the instant it expires
GetCachedPageInclusive(cache, phishlet_id, path, clock) ==
    LET key == CacheKey(phishlet_id, path)
    IN  IF key \in DOMAIN cache /\ cache[key].expires_at >= clock
        THEN {cache[key]}
        ELSE {}

\* the page a lookup returns: live entries only (expires_at > now)
_get_cached_page(cache, phishlet_id, path, clock) ==
    LET key == CacheKey(phishlet_id, path)
    IN  IF key \in DOMAIN cache /\ cache[key].expires_at > clock
        THEN {cache[key]}
        ELSE {}

\* mutant: finding one expired entry clears the whole cache
CacheAfterLookupClear(cache, phishlet_id, path, clock) ==
    LET key == CacheKey(phishlet_id, path)
    IN  IF key \in DOMAIN cache /\ ~(cache[key].expires_at > clock)
        THEN DictDel(cache, DOMAIN cache)
        ELSE cache

\* the cache after a lookup: an expired entry is deleted
CacheAfterLookup(cache, phishlet_id, path, clock) ==
    LET key == CacheKey(phishlet_id, path)
    IN  IF key \in DOMAIN cache /\ ~(cache[key].expires_at > clock)
        THEN DictDel(cache, {key})
        ELSE cache

\* the entry preload_page stores
CachedPage(url, content, clock) ==
    [url |-> url, content |-> content, cached_at |-> clock,
     expires_at |-> clock + _cache_ttl]

(* ------------------------------ registry ------------------------------- *)
\* self.phishlets[config.id] = config
add_phishlet(reg, config) == DictSet(reg, config.id, config)

\* mutant: the record stays
RemoveNothing(reg, phishlet_id) == reg

remove_phishlet(reg, phishlet_id) == DictDel(reg, {phishlet_id})

\* stop_phishlet: the registry and the cache it leaves
StopRegistry(reg, phishlet_id) ==
    IF phishlet_id \in DOMAIN reg
    THEN [reg EXCEPT ![phishlet_id].is_active = FALSE]
    ELSE reg

\* keys_to_remove: the keys that start with f"{phishlet_id}:"
KeysToRemove(cache, phishlet_id) == {k \in DOMAIN cache : k[1] = phishlet_id}

\* mutant: only the key f"{phishlet_id}:" itself is dropped
StopCacheExactKey(reg, cache, phishlet_id) ==
    IF phishlet_id \in DOMAIN reg
    THEN DictDel(cache, {CacheKey(phishlet_id, << >>)})
    ELSE cache

StopCache(reg, cache, phishlet_id) ==
    IF phishlet_id \in DOMAIN reg
    THEN DictDel(cache, KeysToRemove(cache, phishlet_id))
    ELSE cache

(* ------------------------------ cookie jar ----------------------------- *)
\* ClientSession(cookie_jar=CookieJar(unsafe=True)): every request that
\* leaves through the client session is given the jar's cookies for its
\* host, and every response's cookies are put into the jar under its host
JarCookies(jar, host) == IF host \in DOMAIN jar THEN jar[host] ELSE EmptyDict

JarUpdate(jar, host, resp_cookies) ==
    IF resp_cookies = EmptyDict
    THEN jar
    ELSE DictSet(jar, host, DictUpdate(JarCookies(jar, host), resp_cookies))

\* cookies = dict(request.cookies): what the visitor's browser sent, which
\* is the tracking cookie when it has one
RequestCookies(request) ==
    IF request.cookie = NoCookie
    THEN EmptyDict
    ELSE ("_proxy_session" :> ToString(request.cookie))

\* the cookies on the outbound request: the jar's for the host, then the
\* ones passed as cookies=
OutboundCookies(jar, host, cookies) == DictUpdate(JarCookies(jar, host), cookies)

(* ------------------------------- state --------------------------------- *)
VARIABLES
    phishlets,        \* self.phishlets: id -> PhishletConfig
    noid,             \* PhishletConfig objects constructed so far
    sessions,         \* keys of self.sessions (each maps to the object of that id)
    session_objs,     \* every CapturedSession object ever built, by id
    _page_cache,      \* self._page_cache: key -> CachedPage
    _server_started,  \* self._server_started
    _port,            \* self._port
    _server_runner,   \* self._server_runner: the runner's number, or None
    nrunners,         \* web.AppRunner objects constructed so far
    bound,            \* ports a TCPSite of this process listens on
    now,              \* datetime.now()
    nticks,           \* clock advances so far
    pending,          \* _handle_proxy_request coroutines awaiting the upstream
    nreq,             \* requests forwarded so far (numbers their coroutines)
    _cookie_jar,      \* the cookie jar of self._client_session: host -> cookies
    starts,           \* start_phishlet coroutines suspended at an await
    nstart,           \* start_phishlet calls so far
    response          \* what the step just taken returned to its caller

vars == << phishlets, noid, sessions, session_objs, _page_cache,
           _server_started, _port, _server_runner, nrunners, bound, now,
           nticks, pending, nreq, _cookie_jar, starts, nstart, response >>

registry_vars == << phishlets, noid >>
session_vars == << sessions, session_objs >>
server_vars == << _server_started, _port, _server_runner, nrunners, bound >>
clock_vars == << now, nticks >>
relay_vars == << pending, nreq, _cookie_jar >>
start_vars == << starts, nstart >>

\* a step that returns nothing to a caller: time passing, a coroutine
\* moving from one await to the next
NoResponse == [server |-> "none"]

\* the JSON or HTTPException a management route returns
ApiReply(op, id, result) ==
    [server |-> "api", op |-> op, id |-> id, result |-> result]

\* the same for a route that went through stop_phishlet: what it returned
\* and the keys_to_remove stop_phishlet found
ApiStopReply(op, id, result, keys) ==
    [server |-> "api", op |-> op, id |-> id, result |-> result,
     stopped |-> TRUE, keys_to_remove |-> keys]

\* ProxyEngine.__init__, and a clock that has some value
Init ==
    /\ phishlets = EmptyDict
    /\ noid = 0
    /\ sessions = {}
    /\ session_objs = EmptyDict
    /\ _page_cache = EmptyDict
    /\ _server_started = FALSE
    /\ _port = PROXY_PORT
    /\ _server_runner = None
    /\ nrunners = 0
    /\ bound = {}
    /\ now = 1
    /\ nticks = 0
    /\ pending = EmptyDict
    /\ nreq = 0
    /\ _cookie_jar = EmptyDict
    /\ starts = EmptyDict
    /\ nstart = 0
    /\ response = NoResponse

\* d seconds pass
Tick(d) ==
    /\ now' = now + d
    /\ nticks' = nticks + 1
    /\ response' = NoResponse
    /\ UNCHANGED << registry_vars, session_vars, _page_cache, server_vars,
                    relay_vars, start_vars >>

(* -------------------------- management routes -------------------------- *)
\* POST /phishlets, /phishlets/from-template, /targets: build a config and
\* add_phishlet it.  The id is eight hex digits of a uuid4, which nothing
\* compares with the ids already registered.
create_phishlet(id, up, pol) ==
    /\ phishlets' = add_phishlet(phishlets, PhishletConfig(id, up, pol, noid + 1))
    /\ noid' = noid + 1
    /\ response' = ApiReply("create", id, "created")
    /\ UNCHANGED << session_vars, _page_cache, server_vars, clock_vars,
                    relay_vars, start_vars >>

\* mutant: removing a target also drops the sessions it owns
DeletePhishletCascade(id) ==
    IF id \notin DOMAIN phishlets
    THEN /\ response' = ApiReply("delete", id, "404")
         /\ UNCHANGED << registry_vars, session_vars, _page_cache, server_vars,
                         clock_vars, relay_vars, start_vars >>
    ELSE /\ _page_cache' = IF phishlets[id].is_active
                           THEN StopCache(phishlets, _page_cache, id)
                           ELSE _page_cache
         /\ phishlets' = remove_phishlet(phishlets, id)
         /\ sessions' = {sid \in sessions : session_objs[sid].phishlet_id # id}
         /\ response' = IF phishlets[id].is_active
                        THEN ApiStopReply("delete", id, "deleted",
                                 KeysToRemove(_page_cache, id))
                        ELSE ApiReply("delete", id, "deleted")
         /\ UNCHANGED << noid, session_objs, server_vars, clock_vars,
                         relay_vars, start_vars >>

\* DELETE /phishlets/{id}
delete_phishlet(id) ==
    IF id \notin DOMAIN phishlets
    THEN /\ response' = ApiReply("delete", id, "404")
         /\ UNCHANGED << registry_vars, session_vars, _page_cache, server_vars,
                         clock_vars, relay_vars, start_vars >>
    ELSE LET active == phishlets[id].is_active
             reg == IF active THEN StopRegistry(phishlets, id) ELSE phishlets
         IN  /\ _page_cache' = IF active
                               THEN StopCache(phishlets, _page_cache, id)
                               ELSE _page_cache
             /\ phishlets' = remove_phishlet(reg, id)
             /\ response' = IF active
                            THEN ApiStopReply("delete", id, "deleted",
                                     KeysToRemove(_page_cache, id))
                            ELSE ApiReply("delete", id, "deleted")
             /\ UNCHANGED << noid, session_vars, server_vars, clock_vars,
                             relay_vars, start_vars >>

\* POST /phishlets/{id}/stop
stop_phishlet(id) ==
    IF id \notin DOMAIN phishlets
    THEN /\ response' = ApiReply("stop", id, "404")
         /\ UNCHANGED << registry_vars, session_vars, _page_cache, server_vars,
                         clock_vars, relay_vars, start_vars >>
    ELSE IF ~phishlets[id].is_active
    THEN /\ response' = ApiReply("stop", id, "400")
         /\ UNCHANGED << registry_vars, session_vars, _page_cache, server_vars,
                         clock_vars, relay_vars, start_vars >>
    ELSE /\ phishlets' = StopRegistry(phishlets, id)
         /\ _page_cache' = StopCache(phishlets, _page_cache, id)
         /\ response' = ApiStopReply("stop", id, "stopped",
                            KeysToRemove(_page_cache, id))
         /\ UNCHANGED << noid, session_vars, server_vars, clock_vars,
                         relay_vars, start_vars >>

\* DELETE /sessions/{session_id}
delete_session(sid) ==
    IF sid \notin sessions
    THEN /\ response' = ApiReply("delete_session", "", "404")
         /\ UNCHANGED << registry_vars, session_vars, _page_cache, server_vars,
                         clock_vars, relay_vars, start_vars >>
    ELSE /\ sessions' = sessions \ {sid}
         /\ response' = ApiReply("delete_session", "", "deleted")
         /\ UNCHANGED << registry_vars, session_objs, _page_cache, server_vars,
                         clock_vars, relay_vars, start_vars >>

\* POST /sessions/{session_id}/export?format=...
export_session(sid, format, order) ==
    /\ IF sid \notin sessions
       THEN response' = ApiReply("export_session", "", "404")
       ELSE LET session == session_objs[sid]
                known == session.phishlet_id \in DOMAIN phishlets
                target == IF known
                          THEN phishlets[session.phishlet_id].target_host
                          ELSE <<"e","x","a","m","p","l","e",".","c","o","m">>
                content == export_session_cookies(session.cookies, format,
                                                  order, target)
            IN  /\ order \in ItemOrders(session.cookies)
                /\ response' =
                     CASE format = "header" ->
                            [ server |-> "api", op |-> "export_session", id |-> "",
                              result |-> "header", content |-> content,
                              usage |-> <<"c","u","r","l"," ","-","H"," ","\"","C","o","o","k","i","e",":"," ">> \o content
                                          \o <<"\""," ","h","t","t","p","s",":","/","/">> \o target \o <<"/">> ]
                       [] format = "json" ->
                            [ server |-> "api", op |-> "export_session", id |-> "",
                              result |-> "json", cookies |-> session.cookies,
                              tokens |-> session.tokens,
                              credentials |-> session.credentials ]
                       [] OTHER ->
                            [ server |-> "api", op |-> "export_session", id |-> "",
                              result |-> format, content |-> content ]
    /\ UNCHANGED << registry_vars, session_vars, _page_cache, server_vars,
                    clock_vars, relay_vars, start_vars >>

(* --------------------------- start_phishlet ---------------------------- *)
\* mutant: the target is activated without recording the port
ActivateWithoutPort(reg, phishlet_id, oid, port) ==
    IF phishlet_id \in DOMAIN reg /\ reg[phishlet_id].oid = oid
    THEN [reg EXCEPT ![phishlet_id].is_active = TRUE]
    ELSE reg

\* "phishlet.is_active = True; phishlet.listen_port = self._port" on the
\* object the coroutine holds; the registry shows it while that object is
\* still the one registered under the id
Activate(reg, phishlet_id, oid, port) ==
    IF phishlet_id \in DOMAIN reg /\ reg[phishlet_id].oid = oid
    THEN [reg EXCEPT ![phishlet_id].is_active = TRUE,
                     ![phishlet_id].listen_port = port]
    ELSE reg

\* mutant: an unknown id falls back to whatever is registered
LookupWithFallback(reg, phishlet_id) ==
    IF phishlet_id \in DOMAIN reg
    THEN {reg[phishlet_id]}
    ELSE {reg[k] : k \in DOMAIN reg}

\* self.phishlets.get(phishlet_id), as the set of what it finds
LookupPhishlet(reg, phishlet_id) ==
    IF phishlet_id \in DOMAIN reg THEN {reg[phishlet_id]} ELSE {}

StartResult(id, port) ==
    [server |-> "api", op |-> "start", id |-> id, result |-> "running",
     port |-> port]

\* POST /phishlets/{id}/start up to its first await: with the listener
\* running, the target is activated and the preload fetch issued; without,
\* start_server builds its AppRunner and awaits runner.setup()
start_phishlet(id, port) ==
    /\ nstart' = nstart + 1
    /\ IF id \notin DOMAIN phishlets
       THEN /\ response' = ApiReply("start", id, "404")
            /\ UNCHANGED << registry_vars, session_vars, _page_cache,
                            server_vars, clock_vars, relay_vars, starts >>
       ELSE IF _server_started
       THEN /\ phishlets' = Activate(phishlets, id, phishlets[id].oid, _port)
            /\ starts' = DictSet(starts, nstart + 1,
                   [pc |-> "preload", phishlet_id |-> id,
                    oid |-> phishlets[id].oid, port |-> port,
                    url |-> TargetUrl(phishlets[id], << >>),
                    host |-> phishlets[id].target_host])
            /\ response' = NoResponse
            /\ UNCHANGED << noid, session_vars, _page_cache, server_vars,
                            clock_vars, relay_vars >>
       ELSE /\ nrunners' = nrunners + 1
            /\ _server_runner' = nrunners + 1
            /\ starts' = DictSet(starts, nstart + 1,
                   [pc |-> "setup", phishlet_id |-> id,
                    oid |-> phishlets[id].oid, port |-> port, url |-> << >>,
                    host |-> << >>])
            /\ response' = NoResponse
            /\ UNCHANGED << registry_vars, session_vars, _page_cache,
                            _server_started, _port, bound, clock_vars,
                            relay_vars >>

\* runner.setup() returns; the TCPSite is built and site.start() awaited
server_setup_done(k) ==
    /\ k \in DOMAIN starts
    /\ starts[k].pc = "setup"
    /\ starts' = [starts EXCEPT ![k].pc = "bind"]
    /\ response' = NoResponse
    /\ UNCHANGED << registry_vars, session_vars, _page_cache, server_vars,
                    clock_vars, relay_vars, nstart >>

\* site.start() returns.  A port already bound raises OSError, which leaves
\* start_server and start_phishlet and becomes the route's 500.  Otherwise
\* the flags are set, the target is activated and preload_page looks the id
\* up again and issues its fetch.
server_bound(k) ==
    /\ k \in DOMAIN starts
    /\ starts[k].pc = "bind"
    /\ LET f == starts[k]
       IN  IF f.port \in bound
           THEN /\ starts' = DictDel(starts, {k})
                /\ response' = ApiReply("start", f.phishlet_id, "500")
                /\ UNCHANGED << registry_vars, session_vars, _page_cache,
                                server_vars, clock_vars, relay_vars, nstart >>
           ELSE LET reg == Activate(phishlets, f.phishlet_id, f.oid, f.port)
                    found == LookupPhishlet(reg, f.phishlet_id)
                IN  /\ bound' = bound \cup {f.port}
                    /\ _server_started' = TRUE
                    /\ _port' = f.port
                    /\ phishlets' = reg
                    /\ IF found = {}
                       THEN /\ starts' = DictDel(starts, {k})
                            /\ response' = StartResult(f.phishlet_id, f.port)
                       ELSE /\ starts' = [starts EXCEPT
                                   ![k].pc = "preload",
                                   ![k].url = TargetUrl(
                                       CHOOSE p \in found : TRUE, << >>),
                                   ![k].host =
                                       (CHOOSE p \in found : TRUE).target_host]
                            /\ response' = NoResponse
                    /\ UNCHANGED << noid, session_vars, _page_cache,
                                    _server_runner, nrunners, clock_vars,
                                    relay_vars, nstart >>

\* the preload fetch answers: whatever came back is stored under "<id>:/"
preload_done(k, r) ==
    /\ k \in DOMAIN starts
    /\ starts[k].pc = "preload"
    /\ _page_cache' = DictSet(_page_cache,
           CacheKey(starts[k].phishlet_id, <<"/">>),
           CachedPage(starts[k].url, r.body, now))
    /\ starts' = DictDel(starts, {k})
    /\ _cookie_jar' = JarUpdate(_cookie_jar, starts[k].host, r.cookies)
    /\ response' = StartResult(starts[k].phishlet_id, _port)
    /\ UNCHANGED << registry_vars, session_vars, server_vars, clock_vars,
                    pending, nreq, nstart >>

\* the preload fetch raises: preload_page returns False, the start succeeds
preload_failed(k) ==
    /\ k \in DOMAIN starts
    /\ starts[k].pc = "preload"
    /\ starts' = DictDel(starts, {k})
    /\ response' = StartResult(starts[k].phishlet_id, _port)
    /\ UNCHANGED << registry_vars, session_vars, _page_cache, server_vars,
                    clock_vars, relay_vars, nstart >>

(* ------------------------------ the relay ------------------------------ *)
\* str(uuid.uuid4()): an id no session had before
FreshSessionId == Cardinality(DOMAIN session_objs) + 1

\* mutant: a session cookie of one hour that scripts can read
SessionCookieReadable(session_id) ==
    [name |-> "_proxy_session", value |-> session_id, max_age |-> 3600,
     httponly |-> FALSE, path |-> <<"/">>]

\* response.set_cookie('_proxy_session', session.id, max_age=86400,
\* httponly=True, path='/'); a cookie path is the sequence of its parts
SessionCookie(session_id) ==
    [name |-> "_proxy_session", value |-> session_id, max_age |-> 86400,
     httponly |-> TRUE, path |-> <<"/">>]

\* a web.Response of the relay; set_cookie holds the cookies the relay adds
Reply(status, source, body, cookie) ==
    [server |-> "proxy", status |-> status, source |-> source, body |-> body,
     set_cookie |-> IF cookie = NoCookie THEN {} ELSE {SessionCookie(cookie)}]

\* f"Target '{phishlet_id}' not found. Available: {list(self.phishlets.keys())}"
NotFoundReply(phishlet_id, reg) ==
    [server |-> "proxy", status |-> 404, source |-> "notfound",
     body |-> "Target not found. Available:", target |-> phishlet_id,
     available |-> DOMAIN reg, set_cookie |-> {}]

\* what the upstream request can raise: a refused connection or a failed
\* DNS lookup (aiohttp.ClientConnectorError), the session's total timeout
\* (asyncio.TimeoutError), anything else
Exceptions == {"ClientConnectorError", "TimeoutError", "RuntimeError"}

\* "except aiohttp.ClientError": of the three only ClientConnectorError
\* derives from it
IsClientError(exc) == exc = "ClientConnectorError"

\* f"Could not connect to {phishlet.target_host}: {e}" with 502, or
\* f"Proxy error: {e}" with 500
ErrorReply(phishlet, exc) ==
    IF IsClientError(exc)
    THEN [server |-> "proxy", status |-> 502, source |-> "error",
          body |-> "Could not connect to", host |-> phishlet.target_host,
          detail |-> exc, set_cookie |-> {}]
    ELSE [server |-> "proxy", status |-> 500, source |-> "error",
          body |-> "Proxy error:", detail |-> exc, set_cookie |-> {}]

\* _handle_proxy_request up to its await of the upstream: the 404 for an
\* unknown id, the answer from the cache, or session resolution, credential
\* capture and the outbound request
_handle_proxy_request(request) ==
    /\ LET found == LookupPhishlet(phishlets, request.phishlet_id)
           path == <<"/">> \o request.path
       IN  IF found = {}
           THEN /\ response' = NotFoundReply(request.phishlet_id, phishlets)
                /\ UNCHANGED << session_vars, _page_cache, relay_vars >>
           ELSE LET phishlet == CHOOSE p \in found : TRUE
                    hit == IF request.method = "GET"
                           THEN _get_cached_page(_page_cache,
                                    request.phishlet_id, path, now)
                           ELSE {}
                    cache == IF request.method = "GET"
                             THEN CacheAfterLookup(_page_cache,
                                      request.phishlet_id, path, now)
                             ELSE _page_cache
                IN  IF hit # {}
                    THEN /\ response' = Reply(200, "cache",
                                (CHOOSE c \in hit : TRUE).content, NoCookie)
                         /\ _page_cache' = cache
                         /\ UNCHANGED << session_vars, relay_vars >>
                    ELSE LET sid == _get_or_create_session(sessions, request,
                                                          FreshSessionId)
                             session == IF sid \in DOMAIN session_objs
                                        THEN session_objs[sid]
                                        ELSE CapturedSession(sid,
                                                 request.phishlet_id,
                                                 request, now)
                         IN  /\ sessions' = sessions \cup {sid}
                             /\ session_objs' = DictSet(session_objs, sid,
                                    IF request.method = "POST"
                                    THEN MergeCredentials(session,
                                             request.body, phishlet)
                                    ELSE session)
                             /\ pending' = DictSet(pending, nreq + 1,
                                    [route |-> "relay",
                                     session |-> sid, phishlet |-> phishlet,
                                     method |-> request.method, path |-> path,
                                     url |-> TargetUrl(phishlet, request.path),
                                     cookies |-> OutboundCookies(_cookie_jar,
                                         phishlet.target_host,
                                         RequestCookies(request))])
                             /\ nreq' = nreq + 1
                             /\ UNCHANGED _cookie_jar
                             /\ _page_cache' = cache
                             /\ response' = NoResponse
    /\ UNCHANGED << registry_vars, server_vars, clock_vars, start_vars >>

\* the entry appended to session.requests
LogEntry(frame, status, clock) ==
    [timestamp |-> clock, method |-> frame.method, path |-> frame.path,
     status |-> status]

\* the upstream answers r: cookie capture, auth check, tracking cookie, log
upstream_response(rid, r) ==
    /\ rid \in DOMAIN pending
    /\ pending[rid].route = "relay"
    /\ _cookie_jar' = JarUpdate(_cookie_jar, pending[rid].phishlet.target_host,
                                r.cookies)
    /\ LET f == pending[rid]
           s1 == CaptureCookies(session_objs[f.session], f.phishlet, r.cookies)
           s2 == CheckAuth(s1, f.phishlet, f.url, now)
           s3 == [s2 EXCEPT !.requests = Append(@, LogEntry(f, r.status, now))]
       IN  /\ session_objs' = [session_objs EXCEPT ![f.session] = s3]
           /\ response' = Reply(r.status, "upstream", r.body, f.session)
    /\ pending' = DictDel(pending, {rid})
    /\ UNCHANGED << registry_vars, sessions, _page_cache, server_vars,
                    clock_vars, nreq, start_vars >>

\* the upstream request raises exc: aiohttp.ClientError gives 502, anything
\* else 500
upstream_error(rid, exc) ==
    /\ rid \in DOMAIN pending
    /\ pending[rid].route = "relay"
    /\ response' = ErrorReply(pending[rid].phishlet, exc)
    /\ pending' = DictDel(pending, {rid})
    /\ UNCHANGED << registry_vars, session_vars, _page_cache, server_vars,
                    clock_vars, nreq, _cookie_jar, start_vars >>

(* ------------------------- the external route ------------------------- *)
\* web.Response(...) of _handle_external_request: nothing is added to it
ExternalReply(status, body) ==
    [server |-> "proxy", status |-> status, source |-> "external",
     body |-> body, set_cookie |-> {}]

\* /_ext/{domain}/{path} up to its await of the upstream: 400 without a
\* domain, otherwise the request to https://{domain}/{path} is issued
_handle_external_request(request) ==
    /\ IF request.domain = << >>
       THEN /\ response' = ExternalReply(400, "Missing domain")
            /\ UNCHANGED relay_vars
       ELSE /\ pending' = DictSet(pending, nreq + 1,
                   [route |-> "external", domain |-> request.domain,
                    method |-> request.method,
                    url |-> <<"h","t","t","p","s",":","/","/">> \o request.domain \o <<"/">>
                                \o request.path,
                    cookies |-> JarCookies(_cookie_jar, request.domain)])
            /\ nreq' = nreq + 1
            /\ response' = NoResponse
            /\ UNCHANGED _cookie_jar
    /\ UNCHANGED << registry_vars, session_vars, _page_cache, server_vars,
                    clock_vars, start_vars >>

\* mutant: the external answer is kept in the page cache under its domain
ExternalResponseCached(rid, r) ==
    /\ rid \in DOMAIN pending
    /\ pending[rid].route = "external"
    /\ _cookie_jar' = JarUpdate(_cookie_jar, pending[rid].domain, r.cookies)
    /\ _page_cache' = DictSet(_page_cache,
           CacheKey("_ext", pending[rid].domain),
           CachedPage(pending[rid].url, r.body, now))
    /\ response' = ExternalReply(r.status, r.body)
    /\ pending' = DictDel(pending, {rid})
    /\ UNCHANGED << registry_vars, session_vars, server_vars,
                    clock_vars, nreq, start_vars >>

\* the external upstream answers r: status, headers and body are passed on
external_response(rid, r) ==
    /\ rid \in DOMAIN pending
    /\ pending[rid].route = "external"
    /\ _cookie_jar' = JarUpdate(_cookie_jar, pending[rid].domain, r.cookies)
    /\ response' = ExternalReply(r.status, r.body)
    /\ pending' = DictDel(pending, {rid})
    /\ UNCHANGED << registry_vars, session_vars, _page_cache, server_vars,
                    clock_vars, nreq, start_vars >>

\* the external request raises: 502 for every exception
external_error(rid, exc) ==
    /\ rid \in DOMAIN pending
    /\ pending[rid].route = "external"
    /\ response' = [server |-> "proxy", status |-> 502, source |-> "external",
                    body |-> "Error fetching", domain |-> pending[rid].domain,
                    detail |-> exc, set_cookie |-> {}]
    /\ pending' = DictDel(pending, {rid})
    /\ UNCHANGED << registry_vars, session_vars, _page_cache, server_vars,
                    clock_vars, nreq, _cookie_jar, start_vars >>

\* an upstream request leaves through self._client_session in this step
FetchIssued ==
    \/ DOMAIN pending' \ DOMAIN pending # {}
    \/ \E k \in DOMAIN starts' :
          /\ starts'[k].pc = "preload"
          /\ (k \notin DOMAIN starts \/ starts[k].pc # "preload")

(* ------------------------- relay specification ------------------------- *)
\* the requests the listener can receive on /{phishlet_id}/{path}; the
\* tracking cookie is absent or the id of some session issued before
IssuedCookies == {NoCookie} \cup DOMAIN session_objs

GetRequests(paths, cookies) ==
    [ method : {"GET"}, phishlet_id : PhishletIds, path : paths,
      body : {BodyNone}, cookie : cookies,
      remote : {"10.0.0.7"}, user_agent : {"UA"} ]

PostRequests(bodies, cookies) ==
    [ method : {"POST"}, phishlet_id : PhishletIds, path : {PathRoot},
      body : bodies, cookie : cookies,
      remote : {"10.0.0.7"}, user_agent : {"UA"} ]

RelayRequests ==
    GetRequests(Paths, IssuedCookies) \cup PostRequests(PostBodies, IssuedCookies)

\* what relay runs register: each id with one upstream and policy
RelayConfigs ==
    { [id |-> "p1", up |-> [target_scheme |-> SchemeHttps, target_host |-> HostA],
       pol |-> PolicyFull],
      [id |-> "p2", up |-> [target_scheme |-> SchemeHttp, target_host |-> HostB],
       pol |-> PolicyHeuristic] }

NextRelay ==
    \/ nticks < RelayTicks /\ Tick(1)
    \/ noid < RelayRegs /\ \E c \in RelayConfigs : create_phishlet(c.id, c.up, c.pol)
    \/ \E sid \in DOMAIN session_objs : delete_session(sid)
    \/ nreq < RelayReqs /\ \E request \in RelayRequests : _handle_proxy_request(request)
    \/ \E rid \in DOMAIN pending, r \in UpstreamResponses :
           upstream_response(rid, r)
    \/ \E rid \in DOMAIN pending, exc \in Exceptions : upstream_error(rid, exc)

SpecRelay == Init /\ [][NextRelay]_vars

(* ------------------------ control specification ------------------------ *)
\* ports a start request may name
Ports == {PROXY_PORT, PROXY_PORT + 1}

ControlRequests ==
    GetRequests({PathRoot}, {NoCookie}) \cup PostRequests({BodyRaw}, {NoCookie})

\* what a preload receives: one of two pages, or the upstream's error page
\* (the fetch follows redirects, so no 3xx comes back)
NotFoundResponse == [status |-> 404, cookies |-> EmptyDict, body |-> "notfound"]

ControlResponses ==
    {r \in UpstreamResponses : r.status = 200} \cup {NotFoundResponse}

ControlPolicies == {PolicyFull}

NextControl ==
    \/ nticks < ControlTicks /\ \E d \in {1, _cache_ttl} : Tick(d)
    \/ noid < ControlRegs
       /\ \E id \in PhishletIds, up \in Upstreams, pol \in ControlPolicies :
              create_phishlet(id, up, pol)
    \/ \E id \in PhishletIds : delete_phishlet(id)
    \/ \E id \in PhishletIds : stop_phishlet(id)
    \/ nstart < ControlStarts
       /\ \E id \in PhishletIds, port \in Ports : start_phishlet(id, port)
    \/ \E k \in DOMAIN starts : server_setup_done(k)
    \/ \E k \in DOMAIN starts : server_bound(k)
    \/ \E k \in DOMAIN starts, r \in ControlResponses : preload_done(k, r)
    \/ \E k \in DOMAIN starts : preload_failed(k)
    \/ nreq < ControlReqs /\ \E request \in ControlRequests : _handle_proxy_request(request)
    \/ \E sid \in DOMAIN session_objs : delete_session(sid)

SpecControl == Init /\ [][NextControl]_vars

(* ------------------------- start specification ------------------------- *)
\* targets being started and stopped, with starts that overlap
NextStart ==
    \/ noid < StartRegs /\ \E c \in RelayConfigs : create_phishlet(c.id, c.up, c.pol)
    \/ nstart < StartStarts
       /\ \E id \in PhishletIds, port \in Ports : start_phishlet(id, port)
    \/ \E k \in DOMAIN starts : server_setup_done(k)
    \/ \E k \in DOMAIN starts : server_bound(k)
    \/ \E k \in DOMAIN starts, r \in ControlResponses : preload_done(k, r)
    \/ \E k \in DOMAIN starts : preload_failed(k)
    \/ \E id \in PhishletIds : stop_phishlet(id)

SpecStart == Init /\ [][NextStart]_vars

(* ------------------------- cache specification ------------------------- *)
\* two targets are started and preloaded at different times, and visitors
\* ask for their pages while the entries age
CacheRequests == GetRequests(Paths, {NoCookie})

CachePages == {r \in UpstreamResponses : r.cookies = EmptyDict}

NextCache ==
    \/ nticks < CacheTicks /\ \E d \in {1, _cache_ttl} : Tick(d)
    \/ noid < CacheRegs /\ \E c \in RelayConfigs : create_phishlet(c.id, c.up, c.pol)
    \/ nstart < CacheStarts /\ \E id \in PhishletIds : start_phishlet(id, PROXY_PORT)
    \/ \E k \in DOMAIN starts : server_setup_done(k)
    \/ \E k \in DOMAIN starts : server_bound(k)
    \/ \E k \in DOMAIN starts, r \in CachePages : preload_done(k, r)
    \/ nreq < CacheReqs /\ \E request \in CacheRequests : _handle_proxy_request(request)
    \/ \E rid \in DOMAIN pending, r \in CachePages : upstream_response(rid, r)

SpecCache == Init /\ [][NextCache]_vars

(* --------------------- shared-client specification --------------------- *)
\* visitors of one target and requests on the external route, all served
\* through the one client session
JarRequests == {r \in GetRequests({PathRoot}, IssuedCookies) : r.phishlet_id = "p1"}

\* the route is /_ext/{domain}/{path:.*}, which no empty domain matches
ExternalRequests ==
    [ method : {"GET"}, domain : {HostA, <<"c",".","e","x">>}, path : {<<"x">>} ]

JarResponses == {r \in UpstreamResponses : r.status = 200}

NextJar ==
    \/ noid < JarRegs /\ \E c \in RelayConfigs : create_phishlet(c.id, c.up, c.pol)
    \/ nreq < JarReqs /\ \E request \in JarRequests : _handle_proxy_request(request)
    \/ \E rid \in DOMAIN pending, r \in JarResponses : upstream_response(rid, r)
    \/ \E rid \in DOMAIN pending, exc \in Exceptions : upstream_error(rid, exc)
    \/ nreq < JarReqs /\ \E request \in ExternalRequests : _handle_external_request(request)
    \/ \E rid \in DOMAIN pending, r \in JarResponses : external_response(rid, r)
    \/ \E rid \in DOMAIN pending, exc \in Exceptions : external_error(rid, exc)

SpecJar == Init /\ [][NextJar]_vars

(* ------------------------ rewriter specification ----------------------- *)
HostLocal == <<"l","o","c","a","l","h","o","s","t">>
DomainC == <<"c",".","e","x">>

\* what a text is made of
TextPieces ==
    { <<"h","t","t","p","s",":","/","/">>, <<"h","t","t","p",":","/","/">>, <<"/","/">>, HostA, HostLocal, DomainC,
      <<"/","x">>, HeadClose }

\* the texts of up to RewritePieces pieces
RECURSIVE TextsOf(_)
TextsOf(n) ==
    IF n = 0
    THEN { << >> }
    ELSE LET shorter == TextsOf(n - 1)
         IN  shorter \cup {t \o piece : t \in shorter, piece \in TextPieces}

RewriteTexts == TextsOf(RewritePieces)

\* targets without sub-filters: a remote host, the same with a proxy domain
\* and a script to inject, and a target on the relay's own host name
RewriteTargets ==
    { RewriteConfig("p1", HostA, << >>, << >>, << >>),
      RewriteConfig("p1", HostA, <<DomainC>>, << >>, <<"f","(",")">>),
      RewriteConfig("p2", HostLocal, << >>, << >>, << >>) }

\* content = self._rewrite_content(content, phishlet)
rewrite_content(content, phishlet) ==
    /\ response' = [server |-> "rewriter", content |-> content,
                    phishlet |-> phishlet,
                    result |-> _rewrite_content(content, phishlet, _port)]
    /\ UNCHANGED << registry_vars, session_vars, _page_cache, server_vars,
                    clock_vars, relay_vars, start_vars >>

NextRewrite ==
    \E content \in RewriteTexts, phishlet \in RewriteTargets :
        rewrite_content(content, phishlet)

SpecRewrite == Init /\ [][NextRewrite]_vars

(* ------------------------- export specification ------------------------ *)
\* what the upstream of an export run answers: no cookie, two cookies, and
\* one cookie sent as a quoted string, Set-Cookie: sid="a; tok=b", of
\* which the cookie jar of the response keeps the unquoted value
ExportResponses ==
    { [status |-> 200, cookies |-> EmptyDict, body |-> "page1"],
      [status |-> 200, cookies |-> ("sid" :> "s1") @@ ("tok" :> "t1"),
       body |-> "page2"],
      [status |-> 200, cookies |-> ("sid" :> "a; tok=b"), body |-> "page2"] }

ExportFormats == {"header", "json", "netscape", "xml"}

ExportRequests ==
    {r \in GetRequests({PathRoot}, IssuedCookies) : r.phishlet_id = "p1"}

NextExport ==
    \/ noid < ExportRegs /\ create_phishlet("p1", [target_scheme |-> SchemeHttps, target_host |-> HostA], PolicyFull)
    \/ \E id \in PhishletIds : delete_phishlet(id)
    \/ nreq < ExportReqs /\ \E request \in ExportRequests : _handle_proxy_request(request)
    \/ \E rid \in DOMAIN pending, r \in ExportResponses : upstream_response(rid, r)
    \/ \E sid \in DOMAIN session_objs : delete_session(sid)
    \/ \E sid \in DOMAIN session_objs, format \in ExportFormats :
          \E order \in (IF sid \in sessions
                        THEN ItemOrders(session_objs[sid].cookies)
                        ELSE {<< >>}) :
              export_session(sid, format, order)

SpecExport == Init /\ [][NextExport]_vars

(* ======================================================================= *)
(* Claims                                                                  *)
(* ======================================================================= *)
\* the session object a forwarded request works on: that of the frame the
\* step added
NewFrame == pending'[nreq']

Forwarded == nreq' = nreq + 1

\* C2: a request whose _proxy_session cookie is the id of a stored session
\* is resolved to that session: its coroutine works on the session of that
\* id, and neither the store nor the set of session objects grows.
C2_CookieResolvesToStoredSession ==
    [][ Forwarded =>
        \A request \in RelayRequests :
            ( /\ _handle_proxy_request(request)
              /\ request.cookie # NoCookie
              /\ request.cookie \in sessions )
            => /\ NewFrame.session = request.cookie
               /\ sessions' = sessions
               /\ DOMAIN session_objs' = DOMAIN session_objs ]_vars

\* C2 witness: two requests were relayed on one session, the only one made
C2_Witness ==
    \E sid \in sessions :
        /\ Len(session_objs[sid].requests) = 2
        /\ DOMAIN session_objs = {sid}

\* C1: the authenticated flag of a session object never goes back to false,
\* and authenticated_at is written exactly once, in the step that flips the
\* flag: it is None while the flag is false, the time of the flip when it
\* flips, and unchanged ever after.
C1_AuthenticatedOnce ==
    [][ \A sid \in DOMAIN session_objs :
          LET old == session_objs[sid]
              new == session_objs'[sid]
          IN  /\ old.authenticated =>
                    /\ new.authenticated
                    /\ new.authenticated_at = old.authenticated_at
              /\ (~old.authenticated /\ new.authenticated) =>
                    new.authenticated_at = now
              /\ ~new.authenticated => new.authenticated_at = None ]_vars

\* C1 witness: with auth_urls = ["/dash"] (the only target ever registered),
\* a session saw two responses for /dash, the second later than the first,
\* and carries the first one's time
C1_Witness ==
    \E sid \in DOMAIN session_objs :
        LET s == session_objs[sid]
        IN  /\ noid = 1 /\ DOMAIN phishlets = {"p1"}
            /\ Len(s.requests) = 2
            /\ s.requests[1].path = <<"/","d","a","s","h">>
            /\ s.requests[2].path = <<"/","d","a","s","h">>
            /\ s.requests[1].timestamp < s.requests[2].timestamp
            /\ s.authenticated
            /\ s.authenticated_at = s.requests[1].timestamp

\* the cookie names a phishlet's policy sends to session.tokens
TokenNames(phishlet) ==
    phishlet.capture_cookies
        \cup {phishlet.auth_tokens[i] : i \in 1..Len(phishlet.auth_tokens)}

\* C3: when the upstream answers, every cookie of the response is in
\* session.cookies with the response's value; one named in capture_cookies
\* or auth_tokens is in session.tokens with that value too; for any other
\* name session.tokens is as it was.
C3_ResponseCookiesCaptured ==
    [][ response'.server = "proxy" =>
        \A rid \in DOMAIN pending, r \in UpstreamResponses :
            upstream_response(rid, r) =>
              LET f == pending[rid]
                  old == session_objs[f.session]
                  new == session_objs'[f.session]
              IN  \A k \in DOMAIN r.cookies :
                    /\ k \in DOMAIN new.cookies
                    /\ new.cookies[k] = r.cookies[k]
                    /\ k \in TokenNames(f.phishlet) =>
                          /\ k \in DOMAIN new.tokens
                          /\ new.tokens[k] = r.cookies[k]
                    /\ k \notin TokenNames(f.phishlet) =>
                          /\ (k \in DOMAIN new.tokens) = (k \in DOMAIN old.tokens)
                          /\ k \in DOMAIN old.tokens =>
                                new.tokens[k] = old.tokens[k] ]_vars

\* C3 witness: after one relayed request a session holds the captured
\* "sid" in tokens and cookies, and "lang" in cookies only
C3_Witness ==
    \E sid \in DOMAIN session_objs :
        LET s == session_objs[sid]
        IN  /\ Len(s.requests) = 1
            /\ "sid" \in DOMAIN s.tokens /\ s.tokens["sid"] = "s2"
            /\ "sid" \in DOMAIN s.cookies /\ s.cookies["sid"] = "s2"
            /\ "lang" \in DOMAIN s.cookies
            /\ "lang" \notin DOMAIN s.tokens

\* whether name contains, case-insensitively, one of the patterns
NameMatches(name, patterns) ==
    \E i \in 1..Len(patterns) :
        \E j \in 0..(Len(name) - Len(patterns[i])) :
            \A c \in 1..Len(patterns[i]) :
                LowerChar(name[j + c]) = LowerChar(patterns[i][c])

\* the fields of a body that the capture policy selects
Selected(body, phishlet) ==
    {k \in DOMAIN body.data : NameMatches(k, phishlet.capture_fields)}

\* a string value is stored as it is, a list value by its first element,
\* an empty list as ''
Stored(value) ==
    CASE value.t = "str" -> value.v[1]
      [] value.t = "list" /\ value.v # << >> -> Head(value.v)
      [] OTHER -> ""

\* the POST requests whose body is a form or a JSON object
IsCaptureBody(request) ==
    request.method = "POST" /\ request.body.ctype \in {"form", "json"}

\* C4 as stated (refuted): every selected field is stored under its own
\* name with the value that was submitted.
C4_Original_StoredAsSubmitted ==
    [][ Forwarded =>
        \A request \in RelayRequests :
            (_handle_proxy_request(request) /\ IsCaptureBody(request)) =>
              LET new == session_objs'[NewFrame.session].credentials
              IN  \A k \in Selected(request.body, NewFrame.phishlet) :
                    /\ k \in DOMAIN new
                    /\ request.body.data[k] = StrVal(new[k]) ]_vars

\* C4 as amended: every selected field is stored under its own name with
\* the submitted value as a string (a list by its first element, '' when
\* empty), no other field is added or changed, and the login form on a
\* fresh session leaves exactly {username: alice, password: secret}.
C4_SelectedFieldsStored ==
    [][ Forwarded =>
        \A request \in RelayRequests :
            (_handle_proxy_request(request) /\ IsCaptureBody(request)) =>
              LET sid == NewFrame.session
                  old == IF sid \in DOMAIN session_objs
                         THEN session_objs[sid].credentials
                         ELSE EmptyDict
                  new == session_objs'[sid].credentials
                  sel == Selected(request.body, NewFrame.phishlet)
              IN  /\ DOMAIN new = DOMAIN old \cup sel
                  /\ \A k \in sel : new[k] = Stored(request.body.data[k])
                  /\ \A k \in DOMAIN old \ sel : new[k] = old[k]
                  /\ ( /\ request.body = BodyLogin
                       /\ old = EmptyDict
                       /\ NewFrame.phishlet.capture_fields
                              = <<fUsername, fPassword>> )
                     => new = (fUsername :> "alice") @@ (fPassword :> "secret")
      ]_vars

\* C4 witness: a session whose credentials are exactly the login form's
\* two fields, and one that stored a field under its upper-case name
C4_Witness ==
    /\ \E sid \in DOMAIN session_objs :
          session_objs[sid].credentials
              = (fUsername :> "alice") @@ (fPassword :> "secret")
    /\ \E sid \in DOMAIN session_objs :
          fPASS \in DOMAIN session_objs[sid].credentials

\* C10: the key sets of a session's cookies, credentials and tokens never
\* shrink, and a value changes only in a step that writes that key, to the
\* value that step writes (cookies and tokens: the answering response's
\* cookie; credentials: the forwarded body's field).
C10_MapsOnlyGrow ==
    [][ \A sid \in DOMAIN session_objs :
          LET old == session_objs[sid]
              new == session_objs'[sid]
          IN  /\ DOMAIN old.cookies \subseteq DOMAIN new.cookies
              /\ DOMAIN old.credentials \subseteq DOMAIN new.credentials
              /\ DOMAIN old.tokens \subseteq DOMAIN new.tokens
              /\ \A k \in DOMAIN old.cookies :
                    new.cookies[k] # old.cookies[k] =>
                      \E rid \in DOMAIN pending, r \in UpstreamResponses :
                          /\ upstream_response(rid, r)
                          /\ pending[rid].session = sid
                          /\ k \in DOMAIN r.cookies
                          /\ r.cookies[k] = new.cookies[k]
              /\ \A k \in DOMAIN old.tokens :
                    new.tokens[k] # old.tokens[k] =>
                      \E rid \in DOMAIN pending, r \in UpstreamResponses :
                          /\ upstream_response(rid, r)
                          /\ pending[rid].session = sid
                          /\ k \in DOMAIN r.cookies
                          /\ r.cookies[k] = new.tokens[k]
              /\ \A k \in DOMAIN old.credentials :
                    new.credentials[k] # old.credentials[k] =>
                      \E request \in RelayRequests :
                          /\ _handle_proxy_request(request)
                          /\ NewFrame.session = sid
                          /\ k \in DOMAIN request.body.data
                          /\ Stored(request.body.data[k]) = new.credentials[k]
      ]_vars

\* C10 witness: "tok" arrived with sid=s1, a later response overwrote sid
\* with s2 and "tok" is still there; a credential was overwritten as well
C10_Witness ==
    /\ \E sid \in DOMAIN session_objs :
          LET s == session_objs[sid]
          IN  /\ "tok" \in DOMAIN s.cookies
              /\ "sid" \in DOMAIN s.cookies /\ s.cookies["sid"] = "s2"
    /\ \E sid \in DOMAIN session_objs :
          LET s == session_objs[sid]
          IN  /\ fUsername \in DOMAIN s.credentials
              /\ fPassword \in DOMAIN s.credentials
              /\ s.credentials[fPassword] = "first"

\* C5: a request, GET or POST, whose target id is not registered is
\* answered 404; the step creates no session, issues no upstream request
\* and leaves the page cache as it was.
C5_UnknownTargetIs404 ==
    [][ \A request \in ControlRequests :
          ( /\ _handle_proxy_request(request)
            /\ request.phishlet_id \notin DOMAIN phishlets )
          => /\ response'.server = "proxy"
             /\ response'.status = 404
             /\ sessions' = sessions
             /\ session_objs' = session_objs
             /\ _page_cache' = _page_cache
             /\ pending' = pending
             /\ ~FetchIssued ]_vars

\* C5 witness: a 404 was returned while the cache still holds a page of an
\* id that is no longer registered
C5_Witness ==
    /\ response.server = "proxy"
    /\ response.status = 404
    /\ \E k \in DOMAIN _page_cache : k[1] \notin DOMAIN phishlets

C7_Original_DuplicateIdRejected ==
    [][ \A id \in PhishletIds, up \in Upstreams, pol \in ControlPolicies :
          (create_phishlet(id, up, pol) /\ id \in DOMAIN phishlets) =>
            /\ phishlets'[id].target_host = phishlets[id].target_host
            /\ phishlets'[id].target_scheme = phishlets[id].target_scheme
            /\ phishlets'[id].is_active = phishlets[id].is_active
            /\ phishlets'[id].listen_port = phishlets[id].listen_port ]_vars

\* C8: a GET for a registered target whose cache entry is live (expires_at
\* later than now) is answered with that entry's content, the cache stays
\* as it is and no upstream request is issued; with the entry expired the
\* GET is sent upstream and the entry is dropped.
C8_LiveEntryServedFromCache ==
    [][ \A request \in ControlRequests :
          LET key == CacheKey(request.phishlet_id, <<"/">> \o request.path)
          IN  ( /\ _handle_proxy_request(request)
                /\ request.method = "GET"
                /\ request.phishlet_id \in DOMAIN phishlets
                /\ key \in DOMAIN _page_cache )
              => IF now < _page_cache[key].expires_at
                 THEN /\ response'.server = "proxy"
                      /\ response'.status = 200
                      /\ response'.body = _page_cache[key].content
                      /\ _page_cache' = _page_cache
                      /\ pending' = pending
                      /\ ~FetchIssued
                 ELSE /\ FetchIssued
                      /\ NewFrame.url = TargetUrl(phishlets[request.phishlet_id],
                                                  request.path)
                      /\ key \notin DOMAIN _page_cache' ]_vars

\* C8 witness: a GET was answered from an entry cached earlier and still
\* live, with the entry's content
C8_Witness ==
    /\ response.server = "proxy"
    /\ response.source = "cache"
    /\ \E k \in DOMAIN _page_cache :
          /\ _page_cache[k].cached_at < now
          /\ now < _page_cache[k].expires_at
          /\ response.body = _page_cache[k].content
          /\ DOMAIN _page_cache = {k}

\* C9: when the stop of a registered, running target returns, the target is
\* inactive and no cache key belongs to its id.
C9_StopDeactivatesAndPurges ==
    [][ \A id \in PhishletIds :
          ( /\ stop_phishlet(id)
            /\ id \in DOMAIN phishlets
            /\ phishlets[id].is_active )
          => /\ response'.result = "stopped"
             /\ id \in DOMAIN phishlets'
             /\ ~phishlets'[id].is_active
             /\ \A k \in DOMAIN _page_cache' : k[1] # id ]_vars

\* C9 witness: a stop returned after dropping the target's cached page
C9_Witness ==
    /\ response.server = "api"
    /\ response.op = "stop"
    /\ response.result = "stopped"
    /\ response.keys_to_remove # {}
    /\ ~phishlets[response.id].is_active
    /\ \A k \in DOMAIN _page_cache : k[1] # response.id

\* C11: the phishlet_id of a session object never changes; a request that
\* presents a stored session's cookie on another target's path works on
\* that session, and the credentials of its body and the cookies of its
\* upstream response are written into that session.
C11_SessionOwnerFixed ==
    [][ /\ \A sid \in DOMAIN session_objs :
              session_objs'[sid].phishlet_id = session_objs[sid].phishlet_id
        /\ Forwarded =>
             \A request \in RelayRequests :
               ( /\ _handle_proxy_request(request)
                 /\ request.cookie \in sessions
                 /\ session_objs[request.cookie].phishlet_id
                        # request.phishlet_id )
               => /\ NewFrame.session = request.cookie
                  /\ NewFrame.phishlet.id = request.phishlet_id
                  /\ IsCaptureBody(request) =>
                       \A k \in Selected(request.body, NewFrame.phishlet) :
                          /\ k \in DOMAIN session_objs'[request.cookie].credentials
                          /\ session_objs'[request.cookie].credentials[k]
                                = Stored(request.body.data[k])
        /\ response'.server = "proxy" =>
             \A rid \in DOMAIN pending, r \in UpstreamResponses :
               ( /\ upstream_response(rid, r)
                 /\ pending[rid].phishlet.id
                        # session_objs[pending[rid].session].phishlet_id )
               => \A k \in DOMAIN r.cookies :
                     /\ k \in DOMAIN session_objs'[pending[rid].session].cookies
                     /\ session_objs'[pending[rid].session].cookies[k]
                           = r.cookies[k] ]_vars

\* C11 witness: a session created on p1 holds a field only p2's policy
\* captures and a cookie p1's policy would have copied to tokens
C11_Witness ==
    \E sid \in sessions :
        LET s == session_objs[sid]
        IN  /\ s.phishlet_id = "p1"
            /\ fPASS \in DOMAIN s.credentials
            /\ Len(s.requests) = 2
            /\ "sid" \in DOMAIN s.cookies
            /\ "sid" \notin DOMAIN s.tokens

\* C12: a session leaves the store only in a step of delete_session, which
\* removes that one session: relaying, time passing and cache expiry,
\* starting, stopping and removing targets all leave every stored session
\* in the store.
C12_SessionsLeaveOnlyByDelete ==
    [][ \/ sessions \subseteq sessions'
        \/ /\ response'.server = "api"
           /\ response'.op = "delete_session"
           /\ response'.result = "deleted"
           /\ \E sid \in sessions :
                 /\ delete_session(sid)
                 /\ sessions' = sessions \ {sid} ]_vars

\* C12 witness: a running target was stopped and removed by a delete, and
\* a session it owns is still in the store
C12_Witness ==
    /\ response.server = "api"
    /\ response.op = "delete"
    /\ response.result = "deleted"
    /\ "stopped" \in DOMAIN response
    /\ response.id \notin DOMAIN phishlets
    /\ \E sid \in sessions : session_objs[sid].phishlet_id = response.id

\* C13 as stated (refuted): every request to a registered target without
\* the cookie of a stored session creates exactly one new session, which
\* records the target id, the client address, the user-agent and the
\* landing path; so does a GET answered from the page cache.
C13_Original_EveryRequestCreatesSession ==
    [][ \A request \in ControlRequests :
          ( /\ _handle_proxy_request(request)
            /\ request.phishlet_id \in DOMAIN phishlets
            /\ request.cookie \notin sessions )
          => \E sid \in sessions' \ sessions :
                /\ sessions' = sessions \cup {sid}
                /\ session_objs'[sid].phishlet_id = request.phishlet_id
                /\ session_objs'[sid].victim_ip = request.remote
                /\ session_objs'[sid].user_agent = request.user_agent
                /\ session_objs'[sid].landing_url
                      = <<"/", request.phishlet_id, "/">> \o request.path ]_vars

\* C14 as stated (refuted): a response relayed from upstream sets
\* _proxy_session to the id of the request's session, max age 24 hours,
\* http-only, with the path /{target_id}.
C14_Original_CookieScopedToTarget ==
    [][ response'.server = "proxy" =>
        \A rid \in DOMAIN pending, r \in UpstreamResponses :
            upstream_response(rid, r) =>
              response'.set_cookie =
                { [name |-> "_proxy_session", value |-> pending[rid].session,
                   max_age |-> 86400, httponly |-> TRUE,
                   path |-> <<"/", pending[rid].phishlet.id>>] } ]_vars

\* C14 as amended: a response relayed from upstream sets exactly one cookie
\* of the relay, _proxy_session, whose value is the id of the request's
\* session, max age 24 hours, http-only, with the path "/".
C14_TrackingCookieSet ==
    [][ response'.server = "proxy" =>
        \A rid \in DOMAIN pending, r \in UpstreamResponses :
            upstream_response(rid, r) =>
              /\ response'.status = r.status
              /\ response'.set_cookie =
                   { [name |-> "_proxy_session", value |-> pending[rid].session,
                      max_age |-> 86400, httponly |-> TRUE,
                      path |-> <<"/">>] } ]_vars

\* C14 witness: an upstream answer was relayed with the cookie of a stored
\* session that has this request in its log
C14_Witness ==
    /\ response.server = "proxy"
    /\ response.source = "upstream"
    /\ \E c \in response.set_cookie :
          /\ c.value \in sessions
          /\ Len(session_objs[c.value].requests) = 2
          /\ session_objs[c.value].requests[2].status = response.status

\* the failures the claim counts as the upstream being unreachable: a
\* refused connection or failed DNS lookup, and a timeout
UpstreamUnreachable == {"ClientConnectorError", "TimeoutError"}

\* C15 as stated (refuted): when the upstream request fails because the
\* upstream cannot be reached (connection refused, DNS failure, timeout)
\* the answer is 502 and names the target host; 500 is for other failures.
C15_Original_UnreachableIs502 ==
    [][ response'.server = "proxy" =>
        \A rid \in DOMAIN pending, exc \in Exceptions :
            upstream_error(rid, exc) =>
              IF exc \in UpstreamUnreachable
              THEN /\ response'.status = 502
                   /\ response'.host = pending[rid].phishlet.target_host
              ELSE response'.status = 500 ]_vars

\* C16 as stated (refuted): the 404 for an unknown target id is what it
\* would be with nothing registered, and a 500 carries no detail of the
\* failure.
C16_Original_ErrorBodiesGeneric ==
    /\ (response.server = "proxy" /\ response.status = 404) =>
          response = NotFoundReply(response.target, EmptyDict)
    /\ (response.server = "proxy" /\ response.status = 500) =>
          "detail" \notin DOMAIN response

\* C20 as stated (refuted): when a GET that missed the cache is answered
\* 200 by the upstream, a live cache entry exists for its target and path.
C20_Original_RelayedGetIsCached ==
    [][ response'.server = "proxy" =>
        \A rid \in DOMAIN pending, r \in UpstreamResponses :
            ( /\ upstream_response(rid, r)
              /\ pending[rid].method = "GET"
              /\ r.status = 200 )
            => LET key == CacheKey(pending[rid].phishlet.id, pending[rid].path)
               IN  /\ key \in DOMAIN _page_cache'
                   /\ _page_cache'[key].expires_at > now' ]_vars

\* C17: start for an unknown id fails and changes nothing.  For a registered
\* target: with the listener not running the call builds a runner, and when
\* its site is bound the port is recorded, the target is active and its
\* listen_port is that port; with the listener running the call builds no
\* runner and binds no port, whatever port was asked for, and the target is
\* active with the listener's port as listen_port.  A start that returns
\* "running" returns the listener's port, which is bound, and every active
\* target's listen_port is a bound port.
C17_StartUsesRunningListener ==
    [][ /\ \A id \in PhishletIds, port \in Ports :
             start_phishlet(id, port) =>
               IF id \notin DOMAIN phishlets
               THEN /\ response' = ApiReply("start", id, "404")
                    /\ UNCHANGED << phishlets, _page_cache, starts,
                                    _server_started, _port, _server_runner,
                                    nrunners, bound >>
               ELSE IF _server_started
               THEN /\ UNCHANGED << _server_started, _port, _server_runner,
                                    nrunners, bound >>
                    /\ phishlets'[id].is_active
                    /\ phishlets'[id].listen_port = _port
                    /\ _port \in bound
                    /\ starts'[nstart'].pc = "preload"
               ELSE /\ nrunners' = nrunners + 1
                    /\ starts'[nstart'].pc = "setup"
                    /\ UNCHANGED << phishlets, _server_started, _port, bound >>
        /\ \A k \in DOMAIN starts :
             (server_bound(k) /\ starts[k].port \notin bound) =>
               /\ _server_started'
               /\ _port' = starts[k].port
               /\ bound' = bound \cup {starts[k].port}
               /\ ( /\ starts[k].phishlet_id \in DOMAIN phishlets
                    /\ phishlets[starts[k].phishlet_id].oid = starts[k].oid )
                  => /\ phishlets'[starts[k].phishlet_id].is_active
                     /\ phishlets'[starts[k].phishlet_id].listen_port
                           = starts[k].port
        /\ ( /\ response'.server = "api"
             /\ response'.op = "start"
             /\ response'.result = "running" )
           => /\ response'.port = _port'
              /\ _port' \in bound'
        /\ \A id \in DOMAIN phishlets' :
             phishlets'[id].is_active => phishlets'[id].listen_port \in bound'
      ]_vars

\* C17 witness: with one listener running, a second start asked for another
\* port; no second runner exists and the target carries the listener's port
C17_Witness ==
    /\ _server_started
    /\ nrunners = 1
    /\ bound = {_port}
    /\ \E k \in DOMAIN starts :
          /\ starts[k].pc = "preload"
          /\ starts[k].port # _port
          /\ starts[k].phishlet_id \in DOMAIN phishlets
          /\ phishlets[starts[k].phishlet_id].is_active
          /\ phishlets[starts[k].phishlet_id].listen_port = _port

\* C18 as stated (refuted): for a target without sub-filters the rewritten
\* text holds no https://{target_host} and no http://{target_host}, and a
\* text that holds neither the target host, a proxy domain nor </head> is
\* returned as it is.
C18_Original_NoTargetUrlLeft ==
    (response.server = "rewriter" /\ response.phishlet.sub_filters = << >>) =>
        LET host == response.phishlet.target_host
            domains == response.phishlet.proxy_domains
        IN  /\ ~Contains(<<"h","t","t","p","s",":","/","/">> \o host, response.result)
            /\ ~Contains(<<"h","t","t","p",":","/","/">> \o host, response.result)
            /\ ( /\ ~Contains(host, response.content)
                 /\ \A i \in 1..Len(domains) :
                       ~Contains(domains[i], response.content)
                 /\ ~Contains(HeadClose, response.content) )
               => response.result = response.content

\* what the header answer of an export of session sid must be: read as a
\* Cookie header it holds every pair of the cookie map once, and no other
HeaderHoldsThePairs(header, cookies) ==
    LET pairs == ParseCookieHeader(header)
    IN  /\ Len(pairs) = Cardinality(DOMAIN cookies)
        /\ \A k \in DOMAIN cookies :
              Cardinality({i \in DOMAIN pairs :
                  pairs[i] = <<StrChars(k), StrChars(cookies[k])>>}) = 1
        /\ \A i \in DOMAIN pairs :
              \E k \in DOMAIN cookies :
                  pairs[i] = <<StrChars(k), StrChars(cookies[k])>>

\* C19 as stated (refuted): the header export of a stored session holds
\* every name=value pair of its cookie map exactly once and no pair that is
\* not in the map, and the export leaves the session as it was.
C19_Original_HeaderHoldsExactlyThePairs ==
    [][ (response'.server = "api" /\ response'.op = "export_session") =>
          \A sid \in sessions :
            \A order \in ItemOrders(session_objs[sid].cookies) :
              export_session(sid, "header", order) =>
                  /\ HeaderHoldsThePairs(response'.content,
                                         session_objs[sid].cookies)
                  /\ UNCHANGED session_vars
      ]_vars

\* C21 as stated (refuted): an upstream response whose status is not 2xx
\* is never stored in the page cache, by preload or by serving; the relay
\* stores nothing, and a request that is not a GET is never answered from
\* the cache.
C21_Original_OnlySuccessfulGetCached ==
    [][ /\ \A k \in DOMAIN starts, r \in ControlResponses :
             (preload_done(k, r) /\ r.status \notin 200..299) =>
                 _page_cache' = _page_cache
        /\ \A request \in ControlRequests :
             (_handle_proxy_request(request) /\ request.method # "GET") =>
                 ~(response'.server = "proxy" /\ response'.status = 200)
        /\ (\E rid \in DOMAIN pending : pending' = DictDel(pending, {rid})) =>
                 DOMAIN _page_cache' \subseteq DOMAIN _page_cache
      ]_vars

\* C22: for a session not yet authenticated, the detector's verdict on an
\* upstream response is: some auth_urls entry occurs in the response URL,
\* or else some auth_tokens name is among the session's cookies, or else the
\* session has a credential named password, passwd or pass in any case and
\* more than two cookies.  The token rule's write to session.tokens (the
\* first auth_tokens name found, with its cookie's value) happens only when
\* the URL rule did not match; otherwise the detector leaves the session as
\* the cookie capture left it.
C22_AuthRulesInOrder ==
    [][ response'.server = "proxy" =>
        \A rid \in DOMAIN pending, r \in UpstreamResponses :
            upstream_response(rid, r) =>
              LET f == pending[rid]
                  seen == CaptureCookies(session_objs[f.session], f.phishlet,
                                         r.cookies)
                  new == session_objs'[f.session]
                  toks == f.phishlet.auth_tokens
                  url_rule == \E u \in f.phishlet.auth_urls : Contains(u, f.url)
                  found == {i \in 1..Len(toks) : toks[i] \in DOMAIN seen.cookies}
                  heuristic ==
                      /\ \E k \in DOMAIN seen.credentials :
                            lower(k) \in PasswordNames
                      /\ Cardinality(DOMAIN seen.cookies) > 2
              IN  ~seen.authenticated =>
                    /\ new.authenticated = (url_rule \/ found # {} \/ heuristic)
                    /\ new.cookies = seen.cookies
                    /\ new.credentials = seen.credentials
                    /\ (url_rule \/ found = {}) => new.tokens = seen.tokens
                    /\ (~url_rule /\ found # {}) =>
                          \E i \in found :
                              /\ \A j \in found : i <= j
                              /\ new.tokens = DictSet(seen.tokens, toks[i],
                                                      seen.cookies[toks[i]])
      ]_vars

\* C22 witness: a session created through p2, which names no token, got
\* "tok" from its first response; its second request went through p1 and
\* was answered by the 302 that sets no "tok": the token rule wrote it
C22_Witness ==
    \E sid \in DOMAIN session_objs :
        LET s == session_objs[sid]
        IN  /\ s.phishlet_id = "p2"
            /\ Len(s.requests) = 2
            /\ s.requests[1].status = 200
            /\ s.requests[2].status = 302
            /\ s.requests[2].path = <<"/">>
            /\ "tok" \in DOMAIN s.tokens
            /\ s.tokens["tok"] = "t1"
            /\ s.authenticated
            /\ s.authenticated_at = s.requests[2].timestamp

\* C23: a lookup of (target id, path) finds the entry exactly when there is
\* one and now is strictly before its expires_at, and then the cache is as
\* it was; a lookup of an entry that is not live removes that entry and
\* nothing else, and is a miss; a lookup of a key that is absent changes
\* nothing.
C23_LookupStrictAndLocal ==
    [][ \A request \in CacheRequests :
          ( /\ _handle_proxy_request(request)
            /\ request.method = "GET"
            /\ request.phishlet_id \in DOMAIN phishlets ) =>
              LET key == CacheKey(request.phishlet_id, <<"/">> \o request.path)
                  present == key \in DOMAIN _page_cache
                  live == present /\ now < _page_cache[key].expires_at
                  served == response'.server = "proxy"
                            /\ response'.source = "cache"
              IN  /\ served = live
                  /\ live => /\ response'.body = _page_cache[key].content
                             /\ _page_cache' = _page_cache
                  /\ (present /\ ~live) =>
                        /\ DOMAIN _page_cache' = DOMAIN _page_cache \ {key}
                        /\ \A k \in DOMAIN _page_cache' :
                              _page_cache'[k] = _page_cache[k]
                        /\ nreq' = nreq + 1
                  /\ ~present => _page_cache' = _page_cache
      ]_vars

\* C23 witness: both targets were preloaded, p1 first; at the instant p1's
\* entry expired a GET for it was forwarded upstream, its entry is gone and
\* p2's younger entry is still there
C23_Witness ==
    /\ nstart = 2 /\ starts = EmptyDict
    /\ DOMAIN _page_cache = {CacheKey("p2", <<"/">>)}
    /\ _page_cache[CacheKey("p2", <<"/">>)].expires_at > now
    /\ now = 1 + _cache_ttl
    /\ \E rid \in DOMAIN pending :
          /\ pending[rid].phishlet.id = "p1"
          /\ pending[rid].method = "GET"
          /\ pending[rid].path = <<"/">>
    /\ "p1" \in DOMAIN phishlets /\ phishlets["p1"].is_active
    /\ "p2" \in DOMAIN phishlets /\ phishlets["p2"].is_active

\* C24 as stated (refuted): the outbound request of a relayed request
\* carries exactly the cookies recorded in the request's session.
C24_Original_OutboundIsSessionCookies ==
    [][ \A request \in JarRequests :
          (_handle_proxy_request(request) /\ nreq' = nreq + 1) =>
              pending'[nreq'].cookies
                  = session_objs'[pending'[nreq'].session].cookies
      ]_vars

\* C25: handling a request on the external route, and the answer or the
\* failure of its upstream request, leave the session store, every session
\* object (cookies, credentials, tokens, request log), the registry and the
\* page cache as they were, and what is returned carries no tracking cookie.
C25_ExternalLeavesCaptureAlone ==
    [][ /\ \A request \in ExternalRequests :
             _handle_external_request(request) =>
                 /\ UNCHANGED << phishlets, sessions, session_objs, _page_cache >>
                 /\ response'.server = "proxy" => response'.set_cookie = {}
        /\ \A rid \in DOMAIN pending :
             ( \/ \E r \in JarResponses : external_response(rid, r)
               \/ \E exc \in Exceptions : external_error(rid, exc) ) =>
                 /\ UNCHANGED << phishlets, sessions, session_objs, _page_cache >>
                 /\ response'.server = "proxy"
                 /\ response'.set_cookie = {}
      ]_vars

\* C25 witness: an external request was answered while a session with
\* captured cookies is in the store
C25_Witness ==
    /\ response.server = "proxy"
    /\ response.source = "external"
    /\ response.status = 200
    /\ \E sid \in sessions : session_objs[sid].cookies # EmptyDict

\* C26 as stated (refuted): every cookie on the outbound request of a
\* relayed request was sent by the visitor with that request or was
\* captured into the request's own session; no cookie that the upstream set
\* for another session is attached.
C26_Original_NoForeignCookiesOutbound ==
    [][ \A request \in JarRequests :
          (_handle_proxy_request(request) /\ nreq' = nreq + 1) =>
              LET out == pending'[nreq'].cookies
                  own == session_objs'[pending'[nreq'].session].cookies
                  sent == RequestCookies(request)
              IN  \A k \in DOMAIN out :
                    \/ k \in DOMAIN sent /\ sent[k] = out[k]
                    \/ k \in DOMAIN own /\ own[k] = out[k]
      ]_vars

\* C27 as stated (refuted): with start calls that overlap while the
\* listener is not running, at most one runner is ever created (so
\* _server_runner is never overwritten), at most one coroutine is between
\* its runner's creation and the end of its bind, and at most one port is
\* bound.
C27_Original_ListenerSetUpOnce ==
    /\ nrunners <= 1
    /\ Cardinality({k \in DOMAIN starts : starts[k].pc \in {"setup", "bind"}}) <= 1
    /\ Cardinality(bound) <= 1

\* C28 as stated (refuted): in every reachable state each entry of the page
\* cache belongs to a target that is registered and active.
C28_Original_CacheOnlyForActiveTargets ==
    \A key \in DOMAIN _page_cache :
        /\ key[1] \in DOMAIN phishlets
        /\ phishlets[key[1]].is_active

\* C29 as stated (refuted): when a relayed response is returned, the session
\* its tracking cookie names is in the session store, and a session object
\* that has been removed from the store is not written by the response
\* step (cookies, tokens, authenticated flag, request log).
C29_Original_ResponseNamesStoredSession ==
    [][ response'.server = "proxy" =>
        \A rid \in DOMAIN pending, r \in UpstreamResponses :
            upstream_response(rid, r) =>
              LET sid == pending[rid].session
              IN  /\ \A c \in response'.set_cookie : c.value \in sessions'
                  /\ sid \notin sessions =>
                        session_objs'[sid] = session_objs[sid]
      ]_vars

\* C30 as stated (refuted): a request whose upstream fetch fails leaves no
\* trace in the session store.  In particular, when the failing request is
\* the only one its session ever had (nothing logged, no other request of
\* the session in flight), that session was created by requests that
\* failed: it is not in the store afterwards and holds no credentials.
C30_Original_FailedRequestLeavesNoTrace ==
    [][ response'.server = "proxy" =>
        \A rid \in DOMAIN pending, exc \in Exceptions :
            upstream_error(rid, exc) =>
              LET sid == pending[rid].session
              IN  ( /\ session_objs[sid].requests = << >>
                    /\ \A o \in DOMAIN pending \ {rid} :
                          pending[o].session # sid ) =>
                        /\ sid \notin sessions'
                        /\ session_objs'[sid].credentials = EmptyDict
      ]_vars

====
